---- MODULE Spec2Model ----
(***************************************************************************)
(* A model of task_manager.py: the SQLite store (TaskDatabase) with its    *)
(* two tables and the sqlite_sequence table of their AUTOINCREMENT keys,   *)
(* and the command interpreter (AITaskManager) that parses the language    *)
(* model's reply and dispatches it to the store.                           *)
(*                                                                         *)
(* Every store operation opens its own connection and commits before it    *)
(* returns, so the state between two operations is the committed content   *)
(* of the database file.  The timestamps (created_date) are not modelled.  *)
(***************************************************************************)
EXTENDS Integers, Sequences, FiniteSets, TLC

VARIABLES
    projects,         \* the rows of table projects
    tasks,            \* the rows of table tasks
    sqlite_sequence,  \* the largest id each AUTOINCREMENT table has issued
    call,             \* the last operation called, with its arguments
    ret,              \* what that operation returned or raised
    ncalls            \* how many operations have been called

vars == <<projects, tasks, sqlite_sequence, call, ret, ncalls>>

(***************************************************************************)
(* Bounds and input sets                                                   *)
(***************************************************************************)
\* The number of operations (store calls or commands) in a run.
MaxCalls == 4

\* Python's None, SQL's NULL.
None == "<None>"
\* A key that a dict does not hold.
Absent == "<absent>"

Names == {"A", "B"}
Descriptions == {""}
Titles == {"Ui", "i1"}
Priorities == {Absent, "high"}
Statuses == {"pending", "completed"}
Identifiers == {"1", "02", "uI", "i", "x", "_1", None}

(***************************************************************************)
(* Strings as the characters they are made of                              *)
(***************************************************************************)
Chars(s) ==
    CASE s = "Ui" -> <<"U", "i">>
      [] s = "i1" -> <<"i", "1">>
      [] s = "1"  -> <<"1">>
      [] s = "02" -> <<"0", "2">>
      [] s = "uI" -> <<"u", "I">>
      [] s = "i"  -> <<"i">>
      [] s = "x"  -> <<"x">>
      [] s = "_1" -> <<"_", "1">>

Digits == {"0", "1", "2", "3", "4", "5", "6", "7", "8", "9"}

DigitVal(c) ==
    CASE c = "0" -> 0 [] c = "1" -> 1 [] c = "2" -> 2 [] c = "3" -> 3
      [] c = "4" -> 4 [] c = "5" -> 5 [] c = "6" -> 6 [] c = "7" -> 7
      [] c = "8" -> 8 [] c = "9" -> 9

\* str(x) as an f-string interpolates it
Str(x) == IF x = None THEN "None" ELSE x

SetMax(S) == CHOOSE m \in S : \A n \in S : n <= m

(***************************************************************************)
(* int(task_identifier) on a str: decimal digits, with single underscores  *)
(* allowed between digits; anything else is a ValueError.                  *)
(***************************************************************************)
IsIntLiteral(cs) ==
    /\ Len(cs) > 0
    /\ \A i \in 1..Len(cs) : cs[i] \in Digits \cup {"_"}
    /\ cs[1] \in Digits
    /\ cs[Len(cs)] \in Digits
    /\ \A i \in 1..(Len(cs) - 1) : ~(cs[i] = "_" /\ cs[i + 1] = "_")

RECURSIVE IntValue(_)
IntValue(cs) ==
    IF cs = <<>> THEN 0
    ELSE LET last == cs[Len(cs)]
             rest == SubSeq(cs, 1, Len(cs) - 1)
         IN  IF last = "_" THEN IntValue(rest)
             ELSE 10 * IntValue(rest) + DigitVal(last)

(***************************************************************************)
(* SQLite's LIKE: % matches any run of characters, _ any one character,    *)
(* and letters match without regard to (ASCII) case.                       *)
(***************************************************************************)
Lower(c) ==
    CASE c = "U" -> "u"
      [] c = "I" -> "i"
      [] c = "X" -> "x"
      [] OTHER -> c

\* LIKE as if it compared letters exactly
CharEqExact(p, c) == p = c

CharEq(p, c) == Lower(p) = Lower(c)

RECURSIVE Like(_, _)
Like(pat, s) ==
    IF pat = <<>> THEN s = <<>>
    ELSE IF Head(pat) = "%"
         THEN Like(Tail(pat), s) \/ (s # <<>> /\ Like(pat, Tail(s)))
         ELSE /\ s # <<>>
              /\ (Head(pat) = "_" \/ CharEq(Head(pat), Head(s)))
              /\ Like(Tail(pat), Tail(s))

\* title LIKE '%<task_identifier>%'
TitleLike(title, task_identifier) ==
    Like(<<"%">> \o Chars(task_identifier) \o <<"%">>, Chars(title))

(***************************************************************************)
(* The store.  A database is [projects, tasks, seq]; an operation returns  *)
(* [db, exc, msg, val]: the database it leaves, and what it returned or    *)
(* raised.                                                                 *)
(***************************************************************************)
DB == [projects |-> projects, tasks |-> tasks, seq |-> sqlite_sequence]

Return(db, v) == [db |-> db, exc |-> "", msg |-> <<>>, val |-> v]

Raise(db, type, msg) == [db |-> db, exc |-> type, msg |-> msg, val |-> None]

Ids(rows) == {r.id : r \in rows}

\* INTEGER PRIMARY KEY without AUTOINCREMENT: one more than the largest id
\* now in the table
NextIdMaxRowid(rows, seq) == SetMax(Ids(rows) \cup {0}) + 1

\* INTEGER PRIMARY KEY AUTOINCREMENT: one more than the largest id the table
\* has ever held, which sqlite_sequence remembers.
NextId(rows, seq) == SetMax(Ids(rows) \cup {seq}) + 1

init_database ==
    /\ projects = {}
    /\ tasks = {}
    /\ sqlite_sequence = [projects |-> 0, tasks |-> 0]

\* create_project on a table whose name column is not UNIQUE
create_project_not_unique(db, name, description) ==
    IF name = None
    THEN Raise(db, "ValueError", <<"Project '", Str(name), "' already exists">>)
    ELSE LET project_id == NextId(db.projects, db.seq.projects)
             row == [id |-> project_id, name |-> name,
                     description |-> description, status |-> "active"]
         IN  Return([db EXCEPT !.projects = @ \cup {row},
                                !.seq.projects = project_id],
                    project_id)

create_project(db, name, description) ==
    IF name = None \/ \E p \in db.projects : p.name = name
    THEN Raise(db, "ValueError", <<"Project '", Str(name), "' already exists">>)
    ELSE LET project_id == NextId(db.projects, db.seq.projects)
             row == [id |-> project_id, name |-> name,
                     description |-> description, status |-> "active"]
         IN  Return([db EXCEPT !.projects = @ \cup {row},
                                !.seq.projects = project_id],
                    project_id)

\* add_task without its "if not project" test: the row is written with the
\* project id of no project
add_task_unchecked(db, project_name, title, description, priority, due_date) ==
    LET project == {p \in db.projects : project_name # None /\ p.name = project_name}
        project_id == IF project = {} THEN 0 ELSE (CHOOSE p \in project : TRUE).id
        task_id == NextId(db.tasks, db.seq.tasks)
        row == [id |-> task_id, project_id |-> project_id,
                title |-> title, description |-> description,
                priority |-> priority, status |-> "pending",
                due_date |-> due_date]
    IN  Return([db EXCEPT !.tasks = @ \cup {row}, !.seq.tasks = task_id], task_id)

add_task(db, project_name, title, description, priority, due_date) ==
    LET project == {p \in db.projects : project_name # None /\ p.name = project_name}
    IN  IF project = {}
        THEN Raise(db, "ValueError", <<"Project '", Str(project_name), "' not found">>)
        ELSE LET project_id == (CHOOSE p \in project : TRUE).id
                 task_id == NextId(db.tasks, db.seq.tasks)
                 row == [id |-> task_id, project_id |-> project_id,
                         title |-> title, description |-> description,
                         priority |-> priority, status |-> "pending",
                         due_date |-> due_date]
             IN  Return([db EXCEPT !.tasks = @ \cup {row},
                                    !.seq.tasks = task_id],
                        task_id)

\* a WHERE clause that tries the title as well as the id
MatchedIdOrTitle(db, task_identifier) ==
    {t \in db.tasks :
        \/ /\ IsIntLiteral(Chars(task_identifier))
           /\ t.id = IntValue(Chars(task_identifier))
        \/ TitleLike(t.title, task_identifier)}

\* The rows the WHERE clause of delete_task and update_task_status selects.
Matched(db, task_identifier) ==
    IF IsIntLiteral(Chars(task_identifier))
    THEN {t \in db.tasks : t.id = IntValue(Chars(task_identifier))}
    ELSE {t \in db.tasks : TitleLike(t.title, task_identifier)}

delete_task(db, task_identifier) ==
    IF task_identifier = None
    THEN Raise(db, "TypeError", <<"int() argument must be a string, a bytes-like object or a real number, not 'NoneType'">>)
    ELSE LET rows == Matched(db, task_identifier)
         IN  Return([db EXCEPT !.tasks = @ \ rows], rows # {})

update_task_status(db, task_identifier, new_status) ==
    IF task_identifier = None
    THEN Raise(db, "TypeError", <<"int() argument must be a string, a bytes-like object or a real number, not 'NoneType'">>)
    ELSE LET rows == Matched(db, task_identifier)
         IN  Return([db EXCEPT !.tasks =
                         {IF t \in rows THEN [t EXCEPT !.status = new_status] ELSE t
                            : t \in @}],
                    rows # {})

\* get_all_data without the test on the task's status
get_all_data_every_task(db) ==
    [projects |->
        {[id |-> p.id, name |-> p.name, description |-> p.description,
          status |-> p.status,
          tasks |-> {[id |-> t.id, title |-> t.title,
                      description |-> t.description, priority |-> t.priority,
                      status |-> t.status, due_date |-> t.due_date]
                       : t \in {u \in db.tasks : u.project_id = p.id}}]
           : p \in {q \in db.projects : q.status = "active"}}]

get_all_data(db) ==
    [projects |->
        {[id |-> p.id, name |-> p.name, description |-> p.description,
          status |-> p.status,
          tasks |-> {[id |-> t.id, title |-> t.title,
                      description |-> t.description, priority |-> t.priority,
                      status |-> t.status, due_date |-> t.due_date]
                       : t \in {u \in db.tasks :
                                  u.project_id = p.id /\ u.status # "completed"}}]
           : p \in {q \in db.projects : q.status = "active"}}]

(***************************************************************************)
(* The language model's reply.  A reply is a sequence of tokens:           *)
(*   "{" "}"  the two brace characters                                     *)
(*   "s"      the members "function": ..., "output": ...                   *)
(*   "a"      , "function_arg":   (the key; its value follows)             *)
(*   "g"      the members of the function_arg object                       *)
(*   "n"      a JSON number                                                *)
(*   "w"      words without braces, not JSON                               *)
(* and the payload says what the members "s" and "g" hold.                 *)
(***************************************************************************)
ResponseTexts ==
    { <<"{", "s", "a", "{", "g", "}", "}">>,
      <<"w", "{", "s", "a", "{", "g", "}", "}", "w">>,
      <<"{", "s", "}">>,
      <<"{", "s", "a", "n", "}">>,
      <<"{", "}">>,
      <<"n">>,
      <<"w">>,
      <<"{", "w">>,
      <<"w", "}">>,
      <<"}", "w", "{">>,
      <<"{", "w", "}">> }

Functions ==
    {"create_project", "add_task", "delete_task", "complete_task",
     "recommend_task", "discuss", "archive_project"}

Outputs == {"Done."}

\* A function_arg value: a dict (a key it lacks is Absent), a number, or no
\* value at all (the command has no function_arg key).
Arg(type, name, project_name, title, priority, task_identifier) ==
    [type |-> type, name |-> name, description |-> Absent,
     project_name |-> project_name, title |-> title, priority |-> priority,
     due_date |-> Absent, task_identifier |-> task_identifier]

EmptyDict == Arg("dict", Absent, Absent, Absent, Absent, Absent)

Number == Arg("int", Absent, Absent, Absent, Absent, Absent)

NoValue == Arg("absent", Absent, Absent, Absent, Absent, Absent)

\* The arguments the prompt describes for each function.  A task always gets
\* a title, and the optional description and due_date are left out.
ArgsFor(function) ==
    CASE function = "create_project" ->
            {Arg("dict", n, Absent, Absent, Absent, Absent) : n \in Names}
      [] function = "add_task" ->
            {Arg("dict", Absent, a[1], a[2], a[3], Absent) :
                a \in Names \X Titles \X {Absent, ""}}
      [] function \in {"delete_task", "complete_task"} ->
            {Arg("dict", Absent, Absent, Absent, Absent, i) :
                i \in Identifiers \ {None}}
      [] OTHER -> {EmptyDict}

\* What the reply's members hold, as far as the reply has them: a function
\* name with arguments of the shape the prompt gives for it.
Payloads(text) ==
    LET has(tok) == \E i \in 1..Len(text) : text[i] = tok
    IN  UNION {{[function |-> f, args |-> a, output |-> o] :
                    a \in (IF has("g") THEN ArgsFor(f) ELSE {EmptyDict}),
                    o \in (IF has("s") THEN Outputs ELSE {Absent})} :
                f \in (IF has("s") THEN Functions ELSE {Absent})}

\* dict.get(key, default)
Get(d, key, default) == IF d[key] = Absent THEN default ELSE d[key]

\* a parameter with a default value in a def's signature
Param(v, default) == IF v = Absent THEN default ELSE v

Dict(function, function_arg, output) ==
    [type |-> "dict", function |-> function, function_arg |-> function_arg,
     output |-> output]

Parsed(value) == [ok |-> TRUE, value |-> value]

JSONDecodeError == [ok |-> FALSE, value |-> Dict(Absent, NoValue, Absent)]

\* the value that follows "function_arg":
json_value(toks, payload) ==
    CASE toks = <<"n">> -> Parsed(Number)
      [] toks = <<"{", "}">> -> Parsed(EmptyDict)
      [] toks = <<"{", "g", "}">> -> Parsed(payload.args)
      [] OTHER -> [ok |-> FALSE, value |-> NoValue]

json_loads(toks, payload) ==
    LET n == Len(toks)
        body == SubSeq(toks, 2, n - 1)
    IN  IF toks = <<"n">>
        THEN Parsed([type |-> "int", function |-> Absent,
                     function_arg |-> NoValue, output |-> Absent])
        ELSE IF n >= 2 /\ toks[1] = "{" /\ toks[n] = "}"
        THEN IF body = <<>> \/ body = <<"g">>
             THEN Parsed(Dict(Absent, NoValue, Absent))
             ELSE IF body = <<"s">>
             THEN Parsed(Dict(payload.function, NoValue, payload.output))
             ELSE IF Len(body) >= 3 /\ body[1] = "s" /\ body[2] = "a"
                     /\ json_value(SubSeq(body, 3, Len(body)), payload).ok
             THEN Parsed(Dict(payload.function,
                              json_value(SubSeq(body, 3, Len(body)), payload).value,
                              payload.output))
             ELSE JSONDecodeError
        ELSE JSONDecodeError

\* str.find and str.rfind: the 0-based place of a character, or -1
find(text, ch) ==
    IF \E i \in 1..Len(text) : text[i] = ch
    THEN (CHOOSE i \in 1..Len(text) :
            text[i] = ch /\ \A j \in 1..(i - 1) : text[j] # ch) - 1
    ELSE -1

rfind(text, ch) ==
    IF \E i \in 1..Len(text) : text[i] = ch
    THEN (CHOOSE i \in 1..Len(text) :
            text[i] = ch /\ \A j \in (i + 1)..Len(text) : text[j] # ch) - 1
    ELSE -1

\* text[start:end]: a negative index counts from the end, and both are clamped
SliceIndex(text, i) ==
    IF i < 0 THEN (IF Len(text) + i < 0 THEN 0 ELSE Len(text) + i)
    ELSE IF i > Len(text) THEN Len(text) ELSE i

Slice(text, start, end) ==
    IF SliceIndex(text, start) >= SliceIndex(text, end) THEN <<>>
    ELSE SubSeq(text, SliceIndex(text, start) + 1, SliceIndex(text, end))

(***************************************************************************)
(* The command interpreter                                                 *)
(***************************************************************************)
Sorry == "Sorry, I couldn't understand that command. Please try again."

AttributeError(db) ==
    Raise(db, "AttributeError", <<"'int' object has no attribute 'get'">>)

\* the if/elif chain without its branch for discuss
TextFunctionsWithoutDiscuss == {"recommend_task"}

\* The functions whose branch only returns the output message.
TextFunctions == {"recommend_task", "discuss"}

\* The branch of execute_function's if/elif chain that function_name selects.
Branch(db, function_name, function_arg, output_message) ==
    CASE function_name = "create_project" ->
            IF function_arg.type # "dict" THEN AttributeError(db)
            ELSE LET r == create_project(db, Get(function_arg, "name", None),
                                         Get(function_arg, "description", ""))
                 IN  IF r.exc # "" THEN r ELSE Return(r.db, <<output_message>>)
      [] function_name = "add_task" ->
            IF function_arg.type # "dict" THEN AttributeError(db)
            ELSE LET r == add_task(db, Get(function_arg, "project_name", None),
                                   Get(function_arg, "title", None),
                                   Get(function_arg, "description", ""),
                                   Get(function_arg, "priority", "medium"),
                                   Get(function_arg, "due_date", None))
                 IN  IF r.exc # "" THEN r ELSE Return(r.db, <<output_message>>)
      [] function_name = "delete_task" ->
            IF function_arg.type # "dict" THEN AttributeError(db)
            ELSE LET task_identifier == Get(function_arg, "task_identifier", None)
                     r == delete_task(db, task_identifier)
                 IN  IF r.exc # "" THEN r
                     ELSE IF r.val THEN Return(r.db, <<output_message>>)
                     ELSE Return(r.db, <<"Could not find task '",
                                         Str(task_identifier), "' to delete.">>)
      [] function_name = "complete_task" ->
            IF function_arg.type # "dict" THEN AttributeError(db)
            ELSE LET task_identifier == Get(function_arg, "task_identifier", None)
                     r == update_task_status(db, task_identifier, "completed")
                 IN  IF r.exc # "" THEN r
                     ELSE IF r.val THEN Return(r.db, <<output_message>>)
                     ELSE Return(r.db, <<"Could not find task '",
                                         Str(task_identifier), "' to complete.">>)
      [] function_name \in TextFunctions -> Return(db, <<output_message>>)
      [] OTHER -> Return(db, <<"Unknown function: ", Str(function_name)>>)

\* try: ... except Exception as e: return f"Error executing {function_name}: {str(e)}"
ExecuteGuard(function_name, r) ==
    IF r.exc # ""
    THEN Return(r.db, <<"Error executing ", Str(function_name), ": ">> \o r.msg)
    ELSE r

execute_function(db, command_json) ==
    IF command_json.type # "dict" THEN AttributeError(db)
    ELSE LET function_name == Get(command_json, "function", None)
             function_arg == IF command_json.function_arg.type = "absent"
                             THEN EmptyDict ELSE command_json.function_arg
             output_message == Get(command_json, "output", "Operation completed.")
         IN  ExecuteGuard(function_name,
                          Branch(db, function_name, function_arg, output_message))

\* process_command without its try/except
ProcessGuardMissing(r) == r

\* try: ... except Exception as e: return f"Error processing command: {str(e)}"
ProcessGuard(r) ==
    IF r.exc # ""
    THEN Return(r.db, <<"Error processing command: ">> \o r.msg)
    ELSE r

\* The parse of the reply: the reply itself, else its span from the first
\* "{" to the last "}".  how is "direct", "span", "bad_span" or "no_span".
parse_response(ai_response, payload) ==
    LET start == find(ai_response, "{")
        end == rfind(ai_response, "}") + 1
        span == json_loads(Slice(ai_response, start, end), payload)
    IN  IF json_loads(ai_response, payload).ok
        THEN [how |-> "direct", value |-> json_loads(ai_response, payload).value]
        ELSE IF start # -1 /\ end # 0
        THEN [how |-> IF span.ok THEN "span" ELSE "bad_span", value |-> span.value]
        ELSE [how |-> "no_span", value |-> JSONDecodeError.value]

\* ai is what generate_text does: [raises, text, payload]
process_command(db, ai) ==
    IF ai.raises
    THEN ProcessGuard(Raise(db, "Exception", <<"generate_content failed">>))
    ELSE LET p == parse_response(ai.text, ai.payload)
         IN  CASE p.how = "no_span" -> Return(db, <<Sorry>>)
               [] p.how = "bad_span" ->
                    ProcessGuard(Raise(db, "JSONDecodeError", <<"Expecting value">>))
               [] OTHER -> ProcessGuard(execute_function(db, p.value))

(***************************************************************************)
(* Actions                                                                 *)
(***************************************************************************)
Commit(c, r) ==
    /\ ncalls < MaxCalls
    /\ ncalls' = ncalls + 1
    /\ projects' = r.db.projects
    /\ tasks' = r.db.tasks
    /\ sqlite_sequence' = r.db.seq
    /\ call' = c
    /\ ret' = [exc |-> r.exc, msg |-> r.msg, val |-> r.val]

Init ==
    /\ init_database
    /\ call = [op |-> "init_database"]
    /\ ret = [exc |-> "", msg |-> <<>>, val |-> None]
    /\ ncalls = 0

CreateProject ==
    \E name \in Names, description \in Descriptions :
        Commit([op |-> "create_project", name |-> name, description |-> description],
               create_project(DB, name, description))

AddTask ==
    \E project_name \in Names, title \in Titles, priority \in Priorities :
        Commit([op |-> "add_task", project_name |-> project_name, title |-> title,
                priority |-> priority],
               add_task(DB, project_name, title, Param(Absent, ""),
                        Param(priority, "medium"), Param(Absent, None)))

DeleteTask ==
    \E task_identifier \in Identifiers :
        Commit([op |-> "delete_task", task_identifier |-> task_identifier],
               delete_task(DB, task_identifier))

UpdateTaskStatus ==
    \E task_identifier \in Identifiers, new_status \in Statuses :
        Commit([op |-> "update_task_status", task_identifier |-> task_identifier,
                new_status |-> new_status],
               update_task_status(DB, task_identifier, new_status))

\* One run of the program: the model replies and the reply is carried out.
ProcessCommand ==
    \E text \in ResponseTexts :
        \E payload \in Payloads(text) :
            LET ai == [raises |-> FALSE, text |-> text, payload |-> payload]
            IN  Commit([op |-> "process_command", ai |-> ai], process_command(DB, ai))

\* One run of the program in which the call to the model fails.
ProcessCommandNoReply ==
    LET ai == [raises |-> TRUE, text |-> <<>>,
               payload |-> [function |-> Absent, args |-> EmptyDict, output |-> Absent]]
    IN  Commit([op |-> "process_command", ai |-> ai], process_command(DB, ai))

\* The store, called directly.
Next ==
    \/ CreateProject
    \/ AddTask
    \/ DeleteTask
    \/ UpdateTaskStatus

Spec == Init /\ [][Next]_vars

\* The program as its user runs it: every step is one command.
InterpNext ==
    \/ ProcessCommand
    \/ ProcessCommandNoReply

InterpSpec == Init /\ [][InterpNext]_vars

(***************************************************************************)
(* Properties                                                              *)
(***************************************************************************)
SameStore ==
    /\ projects' = projects
    /\ tasks' = tasks
    /\ sqlite_sequence' = sqlite_sequence

\* The last call was a command whose reply the model did give.
Replied(c) == c.op = "process_command" /\ ~c.ai.raises

\* The reply parses as JSON, itself or from its first "{" to its last "}".
ParsesAsJSON(ai) ==
    \/ json_loads(ai.text, ai.payload).ok
    \/ \E i, j \in 1..Len(ai.text) :
          /\ ai.text[i] = "{" /\ \A k \in 1..(i - 1) : ai.text[k] # "{"
          /\ ai.text[j] = "}" /\ \A k \in (j + 1)..Len(ai.text) : ai.text[k] # "}"
          /\ i <= j
          /\ json_loads(SubSeq(ai.text, i, j), ai.payload).ok

\* The command object the interpreter reads out of the reply.
CommandOf(c) == parse_response(c.ai.text, c.ai.payload).value

\* The last call was a command that parsed to an object naming function f.
Dispatched(c, f) ==
    /\ Replied(c)
    /\ ParsesAsJSON(c.ai)
    /\ CommandOf(c).type = "dict"
    /\ CommandOf(c).function = f

ArgOf(c) ==
    IF CommandOf(c).function_arg.type = "absent" THEN EmptyDict
    ELSE CommandOf(c).function_arg

\* C1: a reply that cannot be parsed as JSON, neither directly nor from its
\* first "{" to its last "}", makes process_command return the fixed
\* sentence "Sorry, I couldn't understand that command. Please try again."
C1_UnparseableReplyGivesSorry ==
    (Replied(call) /\ ~ParsesAsJSON(call.ai)) =>
        (ret.exc = "" /\ ret.val = <<Sorry>>)

\* The function arguments are malformed: not an object, or without the key
\* the store call needs.
MalformedArgs(c) ==
    /\ Replied(c)
    /\ ParsesAsJSON(c.ai)
    /\ CommandOf(c).type = "dict"
    /\ \/ /\ CommandOf(c).function \in
                {"create_project", "add_task", "delete_task", "complete_task"}
          /\ CommandOf(c).function_arg.type = "int"
       \/ /\ CommandOf(c).function \in {"delete_task", "complete_task"}
          /\ ArgOf(c).task_identifier = Absent

\* C2 as stated: every failure of the model call, and every runtime fault
\* that malformed function arguments cause in the dispatch, comes back from
\* process_command as "Error processing command: <message>".
C2_FaultsReportedAtOuterBoundary ==
    (call.op = "process_command" /\ (call.ai.raises \/ MalformedArgs(call))) =>
        (ret.exc = "" /\ Head(ret.val) = "Error processing command: ")

\* C2 as amended: process_command never raises; a failure of the model call,
\* of parsing the span between the braces, or of reading a reply that is JSON
\* but no object comes back as "Error processing command: <message>"; a
\* runtime fault that malformed function arguments cause in the dispatch
\* comes back as "Error executing <function>: <message>".
C2_FaultsAreReportedNotRaised ==
    call.op = "process_command" =>
        /\ ret.exc = ""
        /\ call.ai.raises =>
              ret.val = <<"Error processing command: ", "generate_content failed">>
        /\ (Replied(call) /\ ~ParsesAsJSON(call.ai) /\ ret.val # <<Sorry>>) =>
              Head(ret.val) = "Error processing command: "
        /\ (Replied(call) /\ ParsesAsJSON(call.ai) /\ CommandOf(call).type # "dict") =>
              Head(ret.val) = "Error processing command: "
        /\ MalformedArgs(call) =>
              /\ Len(ret.val) >= 3
              /\ ret.val[1] = "Error executing "
              /\ ret.val[2] = CommandOf(call).function
              /\ ret.val[3] = ": "

C2_Witness ==
    /\ call.op = "process_command"
    /\ MalformedArgs(call)
    /\ CommandOf(call).function = "delete_task"
    /\ Head(ret.val) = "Error executing "
    /\ tasks # {}

UniqueNames == \A p, q \in projects : p.name = q.name => p = q

\* C3: create_project with a name that a project already has raises the
\* duplicate-name error, adds no row and leaves exactly one row with that
\* name; no two project rows ever share a name.
C3_DuplicateProjectRejected ==
    [][ /\ (call'.op = "create_project" /\ \E p \in projects : p.name = call'.name) =>
              /\ ret'.exc = "ValueError"
              /\ ret'.msg = <<"Project '", call'.name, "' already exists">>
              /\ projects' = projects
              /\ Cardinality({p \in projects' : p.name = call'.name}) = 1
        /\ UniqueNames'
      ]_vars

C3_Witness ==
    /\ call.op = "create_project"
    /\ ret.exc = "ValueError"
    /\ \E p \in projects : p.name = call.name
    /\ Cardinality(projects) = 2

\* C4: add_task with a project name that no project row has raises the
\* not-found error and leaves both tables as they were.
C4_AddTaskToMissingProject ==
    [][ (call'.op = "add_task" /\ ~\E p \in projects : p.name = call'.project_name) =>
            /\ ret'.exc = "ValueError"
            /\ ret'.msg = <<"Project '", call'.project_name, "' not found">>
            /\ tasks' = tasks
            /\ projects' = projects
      ]_vars

C4_Witness ==
    /\ call.op = "add_task"
    /\ ret.exc = "ValueError"
    /\ projects # {}
    /\ tasks # {}
    /\ ~\E p \in projects : p.name = call.project_name

\* C5: a task added by a command whose function_arg omits the priority key,
\* or leaves it empty, has priority "medium" and status "pending".
C5_UnspecifiedPriorityIsMedium ==
    (/\ Dispatched(call, "add_task")
     /\ ArgOf(call).priority \in {Absent, ""}
     /\ ret.val = <<CommandOf(call).output>>) =>
        \E t \in tasks :
            /\ t.id = sqlite_sequence.tasks
            /\ t.priority = "medium"
            /\ t.status = "pending"

\* C6: delete_task with an identifier that reads as the id of a task deletes
\* that row and nothing else and returns True; an identifier that reads as an
\* integer is matched against ids only; and when delete_task returns False
\* the tasks table is unchanged.
C6_DeleteByIdRemovesThatRow ==
    [][ (call'.op = "delete_task" /\ call'.task_identifier # None) =>
            LET cs == Chars(call'.task_identifier)
                row == {t \in tasks : t.id = IntValue(cs)}
            IN  /\ IsIntLiteral(cs) =>
                      /\ tasks' = tasks \ row
                      /\ projects' = projects
                      /\ ret'.exc = ""
                      /\ ret'.val = (row # {})
                /\ (ret'.exc = "" /\ ret'.val = FALSE) => tasks' = tasks
      ]_vars

C6_Witness ==
    /\ call.op = "delete_task"
    /\ call.task_identifier = "1"
    /\ ret.exc = ""
    /\ ret.val = TRUE
    /\ \E t \in tasks : t.title = "i1"

\* pat is a part of s, letter case and all
Contains(s, pat) ==
    \E k \in 0..(Len(s) - Len(pat)) :
        \A i \in 1..Len(pat) : s[k + i] = pat[i]

\* pat is a part of s when letter case is ignored and "_" stands for any one
\* character
ContainsFolded(s, pat) ==
    \E k \in 0..(Len(s) - Len(pat)) :
        \A i \in 1..Len(pat) : pat[i] = "_" \/ Lower(s[k + i]) = Lower(pat[i])

ByTitle(c) ==
    /\ c.op \in {"delete_task", "update_task_status"}
    /\ c.task_identifier # None
    /\ ~IsIntLiteral(Chars(c.task_identifier))

\* C7 as stated: an identifier that is no integer affects only the tasks
\* whose title contains it with the same letter case, and the call reports
\* failure when no title does.
C7_TitleMatchIsCaseSensitive ==
    [][ ByTitle(call') =>
            LET hit == {t \in tasks :
                          Contains(Chars(t.title), Chars(call'.task_identifier))}
            IN  /\ ret'.val = (hit # {})
                /\ tasks \ hit \subseteq tasks'
      ]_vars

\* C7 as amended: an identifier that is no integer affects exactly the tasks
\* whose title matches LIKE '%identifier%': the title contains the identifier
\* when ASCII letter case is ignored ("_" in it standing for any character);
\* delete_task deletes those rows, update_task_status sets their status, and
\* the call reports success exactly when there is such a task.
C7_TitleMatchIgnoresCase ==
    [][ ByTitle(call') =>
            LET hit == {t \in tasks :
                          ContainsFolded(Chars(t.title), Chars(call'.task_identifier))}
            IN  /\ ret'.exc = ""
                /\ ret'.val = (hit # {})
                /\ call'.op = "delete_task" => tasks' = tasks \ hit
                /\ call'.op = "update_task_status" =>
                      tasks' = (tasks \ hit) \cup
                               {[t EXCEPT !.status = call'.new_status] : t \in hit}
      ]_vars

C7_Witness ==
    /\ call.op = "delete_task"
    /\ call.task_identifier = "uI"
    /\ ret.exc = ""
    /\ ret.val = TRUE
    /\ tasks # {}

SnapshotTaskIds == UNION {Ids(p.tasks) : p \in get_all_data(DB).projects}

SnapshotOK ==
    \A p \in get_all_data(DB).projects :
        /\ p.status = "active"
        /\ \A t \in p.tasks : t.status # "completed"

\* C8: the snapshot holds only active projects and only tasks that are not
\* completed; a task that complete_task has completed is not in the snapshot,
\* and no later command brings it back: it stays completed until it is
\* deleted, and its id is not given to another task.
C8_CompletedTasksStayOutOfSnapshot ==
    [][ /\ SnapshotOK'
        /\ \A t \in tasks' : t.status = "completed" => t.id \notin SnapshotTaskIds'
        /\ \A t \in tasks : t.status = "completed" =>
              /\ t.id \notin SnapshotTaskIds'
              /\ \A u \in tasks' : u.id = t.id => u = t
        /\ (/\ Dispatched(call', "complete_task")
            /\ ret'.val = <<CommandOf(call').output>>) =>
              LET cs == Chars(ArgOf(call').task_identifier)
              IN  /\ \E t \in tasks' :
                        t.status = "completed" /\ t.id \notin SnapshotTaskIds'
                  /\ IsIntLiteral(cs) =>
                        \E t \in tasks' :
                            t.id = IntValue(cs) /\ t.status = "completed"
      ]_vars

C8_Witness ==
    /\ Dispatched(call, "add_task")
    /\ ret.val = <<CommandOf(call).output>>
    /\ \E t \in tasks : t.status = "completed" /\ t.id \notin SnapshotTaskIds
    /\ SnapshotTaskIds # {}

RecognizedFunctions ==
    {"create_project", "add_task", "delete_task", "complete_task",
     "recommend_task", "discuss"}

\* C9: a command whose function is none of the six recognized names returns
\* "Unknown function: <name>", and recommend_task and discuss return the
\* command's output; none of them changes the store, whatever function_arg is.
C9_UnknownAndTextFunctionsLeaveStore ==
    [][ (Replied(call') /\ ParsesAsJSON(call'.ai) /\ CommandOf(call').type = "dict") =>
            LET function == CommandOf(call').function
            IN  /\ function \notin RecognizedFunctions =>
                      /\ ret'.val = <<"Unknown function: ",
                                      IF function = Absent THEN "None" ELSE function>>
                      /\ SameStore
                /\ function \in {"recommend_task", "discuss"} =>
                      /\ ret'.val = <<CommandOf(call').output>>
                      /\ SameStore
      ]_vars

C9_Witness ==
    /\ Dispatched(call, "archive_project")
    /\ ret.val = <<"Unknown function: ", "archive_project">>
    /\ tasks # {}

\* C10: every task row's project_id is the id of a project row; and a row
\* that a step adds to a table has an id above every id that table has issued
\* (sqlite_sequence, which bounds the ids in the table and never decreases),
\* so that no id is used twice.
C10_TasksReferProjectsIdsNotReused ==
    [][ /\ \A t \in tasks' : t.project_id \in Ids(projects')
        /\ \A t \in tasks' : t.id \notin Ids(tasks) => t.id > sqlite_sequence.tasks
        /\ \A p \in projects' : p.id \notin Ids(projects) => p.id > sqlite_sequence.projects
        /\ sqlite_sequence'.tasks >= sqlite_sequence.tasks
        /\ sqlite_sequence'.projects >= sqlite_sequence.projects
        /\ \A t \in tasks' : t.id <= sqlite_sequence'.tasks
        /\ \A p \in projects' : p.id <= sqlite_sequence'.projects
      ]_vars

C10_Witness ==
    /\ call.op = "add_task"
    /\ ret.exc = ""
    /\ ret.val = 2
    /\ Ids(tasks) = {2}

====
